---- MODULE Spec2Model ----
(***************************************************************************)
(* State-machine model of the terminal Snake game in src/main.c.           *)
(*                                                                         *)
(* The program is single threaded.  Its state is the set of globals        *)
(* (snake, food, game_over, victory, max_y, max_x), the locals of          *)
(* game_loop that live across iterations (ch, running, frame_count) and    *)
(* the position of the program (pc).  Rendering calls carry no state and   *)
(* are left out.  snake.body is modelled by its live prefix, a function    *)
(* on 0..snake.length-1, with the source's zero based indices, and by the  *)
(* number of cells malloc gave it (capacity); after free it has no cells.  *)
(* pc is "crashed" once the process has been killed by a signal.           *)
(***************************************************************************)
EXTENDS Integers, Sequences, FiniteSets, TLC

\* ------------------------------------------------------------------------
\* Sizes.  The source plays on a pit of 40 columns by 20 rows; the model
\* checks a small pit of the same proportions.
\* ------------------------------------------------------------------------
pit_width == 4                      \* playable area cols
pit_height == pit_width \div 2      \* playable area rows

max_attempts == 100    \* place_food: bound of the retry loop
move_interval == 2     \* game_loop: move the snake every N frames

\* ------------------------------------------------------------------------
\* Types
\* ------------------------------------------------------------------------
Direction == {"UP", "DOWN", "LEFT", "RIGHT"}

Point(px, py) == [x |-> px, y |-> py]

\* getch() results in game_loop: the quit keys, the arrows, ERR (no key
\* pending) and one key the program does not know.
Keys == {"q", "Q", "KEY_UP", "KEY_DOWN", "KEY_LEFT", "KEY_RIGHT",
         "ERR", "x"}
\* keys offered to the blocking getch of the start screen
StartKeys == {"SPACE", "q", "Q", "x"}

\* Terminal sizes that getmaxyx reports to main.
TermRows == {pit_height + 2, pit_height + 3, pit_height + 4}
TermCols == {pit_width + 2, pit_width + 3, pit_width + 4}

\* A stream of rand() results as place_food consumes it: the first `count`
\* draws return the pair `first`, every later draw returns the pair `then`.
\* A pair is (value used for food.y, value used for food.x).  The values go
\* one past the pit size, so that the modulo in place_food wraps.  The
\* repeated pair is the one that lands on the cell `hit`, which the callers
\* set to the snake's head: such draws are rejected by place_food.
RandPair == [ry : 0..pit_height, rx : 0..pit_width]
RejectCounts == {1, max_attempts - 1}
RandStreams(hit) ==
    {[first |-> r, count |-> 0, then |-> r] : r \in RandPair}
    \cup {[first |-> [ry |-> hit.y - 1, rx |-> hit.x - 1], count |-> c,
           then |-> r] : c \in RejectCounts, r \in RandPair}
\* rand() has not been called
NoDraw == [ry |-> 0, rx |-> 0]
\* rand() is not called: nothing is consumed
NoRand == {[first |-> [ry |-> 0, rx |-> 0], count |-> 0,
            then |-> [ry |-> 0, rx |-> 0]]}

\* The results of malloc for n cells, as the number of cells behind the
\* pointer returned: n, or 0 for NULL when the memory is used up.
MallocResults(n) == {0, n}

VARIABLES
    pc,           \* position of the program
    max_y, max_x, \* max_y, max_x: 0 until getmaxyx stores the terminal size
    body,         \* snake.body[0 .. snake.length-1]
    capacity,     \* cells of storage behind snake.body, 0 for NULL
    length,       \* snake.length
    max_length,   \* snake.max_length
    dir,          \* snake.dir
    food,         \* food
    game_over,    \* game_over
    victory,      \* victory
    ch,           \* game_loop: last key read
    running,      \* game_loop: running
    frame_count,  \* game_loop: frame_count
    exit_code,    \* value returned by main, -1 while it runs
    attempts,     \* place_food: attempts at the return of the latest call
    drawn,        \* history: the values of the latest two calls of rand()
    exhausted,    \* history: some place_food call used all max_attempts draws
    last_dir      \* history: direction used by the latest update_snake

vars == <<pc, max_y, max_x, body, capacity, length, max_length, dir, food, game_over,
          victory, ch, running, frame_count, exit_code, attempts, drawn,
          exhausted, last_dir>>

\* ------------------------------------------------------------------------
\* is_snake_position
\* ------------------------------------------------------------------------
is_snake_position(b, len, px, py) ==
    \E i \in 0..(len - 1) : b[i].x = px /\ b[i].y = py

\* ------------------------------------------------------------------------
\* place_food: the do/while loop.  `n` is the value of attempts before the
\* draw.  The snake does not change during the call, so a draw that is
\* rejected is rejected again as long as rand() repeats it: the iterations of
\* one run of equal draws are taken together, LastOfRun being the number of
\* the last draw of the run that draw n+1 starts.
\* ------------------------------------------------------------------------
Draw(stream, n) == IF n <= stream.count THEN stream.first ELSE stream.then

LastOfRun(stream, n) == IF n < stream.count THEN stream.count ELSE max_attempts

\* faulty variant: the first draw is taken, on the snake or not
place_food_unchecked(b, len, stream) ==
    LET r == Draw(stream, 1)
    IN  [food |-> Point((r.rx % pit_width) + 1, (r.ry % pit_height) + 1),
         attempts |-> 1, drawn |-> r]

RECURSIVE place_food_loop(_, _, _, _)
place_food_loop(b, len, stream, n) ==
    LET r    == Draw(stream, n + 1)
        fy   == (r.ry % pit_height) + 1
        fx   == (r.rx % pit_width) + 1
        last == LastOfRun(stream, n)
    IN  IF ~is_snake_position(b, len, fx, fy)
        THEN [food |-> Point(fx, fy), attempts |-> n + 1, drawn |-> r]
        ELSE IF last < max_attempts
             THEN place_food_loop(b, len, stream, last)
             ELSE [food |-> Point(fx, fy), attempts |-> max_attempts,
                   drawn |-> r]

place_food(b, len, stream) == place_food_loop(b, len, stream, 0)

\* ------------------------------------------------------------------------
\* check_collision, check_win
\* ------------------------------------------------------------------------
\* faulty variant: the self collision loop stops before the last segment
check_collision_skips_tail(b, len) ==
    LET head == b[0]
    IN  \/ head.x <= 0 \/ head.x > pit_width
        \/ head.y <= 0 \/ head.y > pit_height
        \/ \E i \in 1..(len - 2) : head.x = b[i].x /\ head.y = b[i].y

\* faulty variant: the wall test lets column 0 and row 0 through
check_collision_wall_off_by_one(b, len) ==
    LET head == b[0]
    IN  \/ head.x < 0 \/ head.x > pit_width
        \/ head.y < 0 \/ head.y > pit_height
        \/ \E i \in 1..(len - 1) : head.x = b[i].x /\ head.y = b[i].y

\* faulty variant: the last column counts as the wall
check_collision_wall_early(b, len) ==
    LET head == b[0]
    IN  \/ head.x <= 0 \/ head.x >= pit_width
        \/ head.y <= 0 \/ head.y > pit_height
        \/ \E i \in 1..(len - 1) : head.x = b[i].x /\ head.y = b[i].y

check_collision(b, len) ==
    LET head == b[0]
    IN  \/ head.x <= 0 \/ head.x > pit_width
        \/ head.y <= 0 \/ head.y > pit_height
        \/ \E i \in 1..(len - 1) : head.x = b[i].x /\ head.y = b[i].y

\* faulty variant: one segment early
check_win_early(len, maxlen) == len + 1 >= maxlen

check_win(len, maxlen) == len >= maxlen

\* ------------------------------------------------------------------------
\* update_snake
\* ------------------------------------------------------------------------
\* faulty variant: UP and DOWN exchanged
MoveHead_flipped(p, d) ==
    CASE d = "UP"    -> Point(p.x, p.y + 1)
      [] d = "DOWN"  -> Point(p.x, p.y - 1)
      [] d = "LEFT"  -> Point(p.x - 1, p.y)
      [] d = "RIGHT" -> Point(p.x + 1, p.y)

\* the switch on snake.dir
MoveHead(p, d) ==
    CASE d = "UP"    -> Point(p.x, p.y - 1)
      [] d = "DOWN"  -> Point(p.x, p.y + 1)
      [] d = "LEFT"  -> Point(p.x - 1, p.y)
      [] d = "RIGHT" -> Point(p.x + 1, p.y)

\* faulty variant: the shift loop stops at index 2, segment 1 stays in place
ShiftBody_stops_early(b, len, d) ==
    [i \in 0..(len - 1) |->
        IF i = 0 THEN MoveHead(b[0], d) ELSE IF i = 1 THEN b[1] ELSE b[i - 1]]

\* the shift loop followed by the head move
ShiftBody(b, len, d) ==
    [i \in 0..(len - 1) |-> IF i = 0 THEN MoveHead(b[0], d) ELSE b[i - 1]]

\* whether the moved head is on the food
FoodConsumed(b, f) == b[0].x = f.x /\ b[0].y = f.y

\* faulty variant: the last segment is duplicated instead of the saved tail
GrowBody_duplicates_last(b, len, tail) ==
    [i \in 0..len |-> IF i = len THEN b[len - 1] ELSE b[i]]

\* the grown body: the saved tail is stored at index length-1 after length++
GrowBody(b, len, tail) ==
    [i \in 0..len |-> IF i = len THEN tail ELSE b[i]]

\* faulty variant: the new food is placed before the tail is put back
update_snake_places_early(b, len, d, f, stream) ==
    LET tail  == b[len - 1]
        moved == ShiftBody(b, len, d)
    IN  IF FoodConsumed(moved, f)
        THEN LET grown  == GrowBody(moved, len, tail)
                 placed == place_food(moved, len, stream)
             IN  [body |-> grown, length |-> len + 1, food |-> placed.food,
                  placed |-> TRUE, attempts |-> placed.attempts,
                  drawn |-> placed.drawn]
        ELSE [body |-> moved, length |-> len, food |-> f,
              placed |-> FALSE, attempts |-> 0, drawn |-> NoDraw]

\* the whole function; `stream` is what rand() returns if food is placed
update_snake(b, len, d, f, stream) ==
    LET tail  == b[len - 1]
        moved == ShiftBody(b, len, d)
    IN  IF FoodConsumed(moved, f)
        THEN LET grown  == GrowBody(moved, len, tail)
                 placed == place_food(grown, len + 1, stream)
             IN  [body |-> grown, length |-> len + 1, food |-> placed.food,
                  placed |-> TRUE, attempts |-> placed.attempts,
                  drawn |-> placed.drawn]
        ELSE [body |-> moved, length |-> len, food |-> f,
              placed |-> FALSE, attempts |-> 0, drawn |-> NoDraw]

\* ------------------------------------------------------------------------
\* game_loop: the switch on the key
\* ------------------------------------------------------------------------
\* faulty variant: KEY_LEFT is not guarded against a reversal
HandleDir_left_unguarded(d, key) ==
    CASE key = "KEY_UP"    -> IF d # "DOWN"  THEN "UP"    ELSE d
      [] key = "KEY_DOWN"  -> IF d # "UP"    THEN "DOWN"  ELSE d
      [] key = "KEY_LEFT"  -> "LEFT"
      [] key = "KEY_RIGHT" -> IF d # "LEFT"  THEN "RIGHT" ELSE d
      [] OTHER             -> d

HandleDir(d, key) ==
    CASE key = "KEY_UP"    -> IF d # "DOWN"  THEN "UP"    ELSE d
      [] key = "KEY_DOWN"  -> IF d # "UP"    THEN "DOWN"  ELSE d
      [] key = "KEY_LEFT"  -> IF d # "RIGHT" THEN "LEFT"  ELSE d
      [] key = "KEY_RIGHT" -> IF d # "LEFT"  THEN "RIGHT" ELSE d
      [] OTHER             -> d

HandleRunning(r, key) == IF key \in {"q", "Q"} THEN FALSE ELSE r

\* ------------------------------------------------------------------------
\* init_snake
\* ------------------------------------------------------------------------
center_y == (pit_height \div 2) + 1
center_x == (pit_width \div 2) + 1

\* faulty variant: the body is laid out to the right of the head
InitBody_head_leftmost ==
    [i \in 0..2 |-> Point(center_x + i, center_y)]

InitBody ==
    [i \in 0..2 |-> Point(center_x - i, center_y)]

InitMaxLength == (2 * (pit_height + pit_width)) \div 2

\* ------------------------------------------------------------------------
\* The program
\* ------------------------------------------------------------------------
NoPoint == Point(0, 0)

\* State at the entry of main: the globals have their static initialisers.
Init ==
    /\ pc = "main"
    /\ max_y = 0
    /\ max_x = 0
    /\ body = << >>
    /\ capacity = 0
    /\ length = 0
    /\ max_length = 0
    /\ dir = "UP"
    /\ food = NoPoint
    /\ game_over = FALSE
    /\ victory = FALSE
    /\ ch = "ERR"
    /\ running = FALSE
    /\ frame_count = 0
    /\ exit_code = -1
    /\ attempts = 0
    /\ drawn = NoDraw
    /\ exhausted = FALSE
    /\ last_dir = "NONE"

\* the size the "Terminal too small" message asks for
MsgRows == pit_height + 2
MsgCols == pit_width + 2

\* main: the terminal size check
TooSmall(rows, cols) == rows < pit_height + 4 \/ cols < pit_width + 4

\* main up to show_start_screen: getmaxyx stores the terminal size `rows` by
\* `cols`, then the size check, then init_snake.  `cells` is the result of
\* the malloc of init_snake, which the code does not test.  With NULL the
\* first store to snake.body[0] goes through a null pointer, which is
\* undefined: the process is killed there by SIGSEGV with max_length and
\* length assigned, and with the direction assigned or not, as the compiler
\* ordered the stores.
MainStart(rows, cols, cells) ==
    /\ pc = "main"
    /\ max_y' = rows
    /\ max_x' = cols
    /\ IF TooSmall(rows, cols)
       THEN /\ pc' = "exit"
            /\ exit_code' = 1
            /\ UNCHANGED <<body, capacity, length, max_length, dir>>
       ELSE /\ max_length' = InitMaxLength
            /\ capacity' = cells
            /\ length' = 3
            /\ IF cells = 0
               THEN /\ pc' = "crashed"
                    /\ dir' \in {dir, "RIGHT"}
                    /\ UNCHANGED body
               ELSE /\ pc' = "start_screen"
                    /\ body' = InitBody
                    /\ dir' = "RIGHT"
            /\ UNCHANGED exit_code
    /\ UNCHANGED <<food, game_over, victory, ch, running, frame_count,
                   attempts, drawn, exhausted, last_dir>>

\* show_start_screen: one blocking getch.  The wait loop ends on SPACE, q
\* and Q alike; main then places the first food and enters game_loop.
LeaveStart(key) == key = "SPACE" \/ key = "q" \/ key = "Q"

StartKey(key, stream) ==
    /\ pc = "start_screen"
    /\ IF LeaveStart(key)
       THEN \E placed \in {place_food(body, length, stream)} :
                /\ food' = placed.food
                /\ attempts' = placed.attempts
                /\ drawn' = placed.drawn
                /\ exhausted' = (exhausted \/ placed.attempts >= max_attempts)
                /\ running' = TRUE
                /\ frame_count' = 0
                /\ pc' = "game_loop"
       ELSE UNCHANGED <<food, attempts, drawn, exhausted, running,
                        frame_count, pc>>
    /\ UNCHANGED <<max_y, max_x, body, capacity, length, max_length, dir,
                   game_over, victory, ch, exit_code, last_dir>>

\* game_loop: the loop condition
LoopTest(r, go, v) == r /\ ~go /\ ~v

\* game_loop: whether the snake moves in this iteration
\* faulty variant: the snake moves in every iteration
MoveDue_every_tick(fc) == fc >= 1

MoveDue(fc) == fc >= move_interval

\* whether an iteration that reads `key` reaches place_food, and so rand()
Eats(key) ==
    /\ MoveDue(frame_count + 1)
    /\ FoodConsumed(ShiftBody(body, length, HandleDir(dir, key)), food)

\* game_loop, one iteration: getch and the switch, the frame counter, the
\* move with the collision and win checks, and the loop condition.
Tick(key, stream) ==
    /\ pc = "game_loop"
    /\ ch' = key
    /\ dir' = HandleDir(dir, key)
    /\ running' = HandleRunning(running, key)
    /\ IF MoveDue(frame_count + 1)
       THEN \E u \in {update_snake(body, length, dir', food, stream)} :
              LET hit == check_collision(u.body, u.length)
                  won == ~hit /\ check_win(u.length, max_length)
              IN  /\ body' = u.body
                  /\ length' = u.length
                  /\ food' = u.food
                  /\ attempts' = IF u.placed THEN u.attempts ELSE attempts
                  /\ drawn' = IF u.placed THEN u.drawn ELSE drawn
                  /\ exhausted' = (exhausted \/
                                     (u.placed /\ u.attempts >= max_attempts))
                  /\ last_dir' = dir'
                  /\ frame_count' = 0
                  /\ game_over' = (game_over \/ hit)
                  /\ victory' = (victory \/ won)
                  /\ pc' = IF ~hit /\ ~won /\
                              LoopTest(running', game_over', victory')
                           THEN "game_loop" ELSE "final"
       ELSE /\ frame_count' = frame_count + 1
            /\ pc' = IF LoopTest(running', game_over, victory)
                     THEN "game_loop" ELSE "final"
            /\ UNCHANGED <<body, length, food, attempts, drawn, exhausted,
                           last_dir, game_over, victory>>
    /\ UNCHANGED <<max_y, max_x, capacity, max_length, exit_code>>

\* game_loop after the loop: the blocking wait for the quit key, then
\* cleanup_game, which frees snake.body, and return 0 from main.
\* faulty variant: every key ends the wait
IsQuit_any_key(key) == key = key

IsQuit(key) == key = "q" \/ key = "Q"

FinalKey(key) ==
    /\ pc = "final"
    /\ ch' = key
    /\ IF IsQuit(key)
       THEN /\ pc' = "exit"
            /\ exit_code' = 0
            /\ body' = << >>
            /\ capacity' = 0
       ELSE UNCHANGED <<pc, exit_code, body, capacity>>
    /\ UNCHANGED <<max_y, max_x, length, max_length, dir, food, game_over,
                   victory, running, frame_count, attempts, drawn,
                   exhausted, last_dir>>

Next ==
    \/ \E rows \in TermRows, cols \in TermCols,
          cells \in MallocResults(InitMaxLength) :
             MainStart(rows, cols, cells)
    \/ \E key \in StartKeys :
          \E stream \in (IF pc = "start_screen" /\ LeaveStart(key)
                         THEN RandStreams(body[0]) ELSE NoRand) :
             StartKey(key, stream)
    \/ \E key \in Keys :
          \E stream \in (IF pc = "game_loop" /\ Eats(key)
                         THEN RandStreams(food) ELSE NoRand) :
             Tick(key, stream)
    \/ \E key \in Keys : FinalKey(key)

Spec == Init /\ [][Next]_vars

\* The program with the keys the user presses taken from given sets: on the
\* start screen, during game_loop and on the final screen.
Step(startKeys, loopKeys, finalKeys) ==
    \/ \E rows \in TermRows, cols \in TermCols,
          cells \in MallocResults(InitMaxLength) :
             MainStart(rows, cols, cells)
    \/ \E key \in startKeys :
          \E stream \in (IF pc = "start_screen" /\ LeaveStart(key)
                         THEN RandStreams(body[0]) ELSE NoRand) :
             StartKey(key, stream)
    \/ \E key \in loopKeys :
          \E stream \in (IF pc = "game_loop" /\ Eats(key)
                         THEN RandStreams(food) ELSE NoRand) :
             Tick(key, stream)
    \/ \E key \in finalKeys : FinalKey(key)

\* The user never presses SPACE on the start screen.
QuitStartKeys == StartKeys \ {"SPACE"}

NextQuitAtStart == Step(QuitStartKeys, Keys, Keys)

SpecQuitAtStart == Init /\ [][NextQuitAtStart]_vars

\* The user presses no arrow key and no quit key once the game has started:
\* getch returns ERR in every iteration of game_loop, and the final screen
\* sees no quit key.  game_loop paces itself with usleep and never waits for
\* the user, so its iterations keep coming.
NoKeys == {"ERR"}
NoQuitKeys == {"x"}

TickNoKey ==
    \E stream \in (IF pc = "game_loop" /\ Eats("ERR")
                   THEN RandStreams(food) ELSE NoRand) :
       Tick("ERR", stream)

NextNoKeys == Step(StartKeys, NoKeys, NoQuitKeys)

SpecNoKeys == Init /\ [][NextNoKeys]_vars /\ WF_vars(TickNoKey)

\* ------------------------------------------------------------------------
\* Properties
\* ------------------------------------------------------------------------
Opposite(d) ==
    CASE d = "UP"    -> "DOWN"
      [] d = "DOWN"  -> "UP"
      [] d = "LEFT"  -> "RIGHT"
      [] d = "RIGHT" -> "LEFT"
      [] OTHER       -> "NONE"

\* init_snake has returned and cleanup_game has not run: the snake exists
SnakeReady == pc \in {"start_screen", "game_loop", "final"}

\* main got past init_snake: the start screen was shown
GameStarted == SnakeReady \/ (pc = "exit" /\ exit_code = 0)

\* the loop goes on after the collision and win checks
Running == pc = "game_loop"

\* the step is an iteration of game_loop in which update_snake is called
Advance == pc = "game_loop" /\ MoveDue(frame_count + 1)

InPit(p) == p.x \in 1..pit_width /\ p.y \in 1..pit_height

OnSnake(p) == \E i \in 0..(length - 1) : body[i] = p

Distinct == \A i, j \in 0..(length - 1) : i # j => body[i] # body[j]

\* C1: for every pair of consecutive advances, the direction of the later
\* one is not the opposite of the direction of the earlier one, and the head
\* does not move onto the cell of the second segment.
C1_NoReversal ==
    [][(Advance /\ last_dir # "NONE")
         => (last_dir' # Opposite(last_dir) /\ body'[0] # body[1])]_vars

\* C2 as stated: whenever the length has reached max_length, check_win is
\* true and the game is in Victory and not in GameOver.
C2_AlwaysVictory ==
    (GameStarted /\ length = max_length)
      => (check_win(length, max_length) /\ victory /\ ~game_over)

\* C2 as amended: the same, for runs in which no place_food call has used
\* all of its max_attempts draws.
C2_VictoryUnlessExhausted ==
    (GameStarted /\ length = max_length /\ ~exhausted)
      => (check_win(length, max_length) /\ victory /\ ~game_over
          /\ pc \in {"final", "exit"})

C2_Witness ==
    pc = "final" /\ length = max_length /\ victory /\ ~game_over /\ ~exhausted

\* init_snake has been called and the program has not ended
InitSnakeCalled == pc \notin {"main", "exit"}

\* C3: from the call of init_snake on, 3 <= length <= max_length, max_length
\* is the size fixed by init_snake, and every index of snake.body that is
\* read or written, 0..length-1, lies inside the storage of max_length cells
\* that init_snake allocated.
C3_LengthWithinStorage ==
    InitSnakeCalled
      => /\ 3 <= length /\ length <= max_length
         /\ max_length = pit_width + pit_height
         /\ capacity = max_length
         /\ \A i \in 0..(length - 1) : 0 <= i /\ i < capacity
         /\ SnakeReady => DOMAIN body = 0..(length - 1)

\* C4: in every Running state the body cells are pairwise distinct; a snake
\* with two segments on one cell is only ever seen with the game over.
C4_NoOverlapWhileRunning ==
    /\ Running => Distinct
    /\ (SnakeReady /\ ~Distinct) => (game_over /\ ~Running)

\* the head has run into a segment further down the body, inside the pit
C4_Witness ==
    /\ pc = "final" /\ game_over /\ InPit(body[0])
    /\ \E i \in 3..(length - 1) : body[i] = body[0]

\* C5: in every Running state of a run in which no place_food call has used
\* all of its max_attempts draws, the food is on no snake cell.
C5_FoodOffSnake ==
    (Running /\ ~exhausted) => (InPit(food) /\ ~OnSnake(food))

\* food was eaten, and the new food was placed at the second draw
C5_Witness ==
    Running /\ ~exhausted /\ length > 3 /\ attempts = 2 /\ ~OnSnake(food)

\* C6: update_snake with direction D moves the head exactly one cell in D's
\* direction, every other segment takes the place its predecessor had, and
\* when the new head is not on the food, length and food stay as they were.
C6_AdvanceShifts ==
    [][Advance =>
         /\ (dir' = "UP"    => body'[0] = [x |-> body[0].x, y |-> body[0].y - 1])
         /\ (dir' = "DOWN"  => body'[0] = [x |-> body[0].x, y |-> body[0].y + 1])
         /\ (dir' = "LEFT"  => body'[0] = [x |-> body[0].x - 1, y |-> body[0].y])
         /\ (dir' = "RIGHT" => body'[0] = [x |-> body[0].x + 1, y |-> body[0].y])
         /\ \A i \in 1..(length - 1) : body'[i] = body[i - 1]
         /\ (body'[0] # food => (length' = length /\ food' = food))]_vars

\* the first advance went up from the start position without eating
C6_Witness ==
    /\ Running /\ length = 3 /\ last_dir = "UP"
    /\ body[0] = [x |-> center_x, y |-> center_y - 1]
    /\ body[1] = [x |-> center_x, y |-> center_y]
    /\ body[2] = [x |-> center_x - 1, y |-> center_y]

\* C7: once the snake exists, length changes only in an advance whose new
\* head is on the food cell; it then grows by exactly 1 and the new last
\* segment is the tail cell of before the advance.  Length never decreases.
C7_GrowthOnlyOnFood ==
    [][SnakeReady =>
         /\ length' >= length
         /\ (length' # length => (Advance /\ body'[0] = food))
         /\ ((Advance /\ body'[0] = food)
               => (length' = length + 1
                   /\ body'[length' - 1] = body[length - 1]))]_vars

\* the first advance ate: the snake is one longer and ends on its old tail
C7_Witness ==
    /\ Running /\ length = 4 /\ body[0] = [x |-> center_x + 1, y |-> center_y]
    /\ body[3] = [x |-> center_x - 2, y |-> center_y]

\* C8: check_collision is true iff the head is outside
\* [1, pit_width] x [1, pit_height] or on the cell of some body[i] with
\* 1 <= i < length, and the game is over exactly when that holds of the
\* snake as the latest advance left it.
HeadCollides ==
    \/ ~(body[0].x \in 1..pit_width /\ body[0].y \in 1..pit_height)
    \/ body[0] \in {body[i] : i \in 1..(length - 1)}

C8_GameOverIffCollision ==
    SnakeReady
      => /\ check_collision(body, length) <=> HeadCollides
         /\ game_over <=> HeadCollides
         /\ game_over => ~Running

\* the snake was turned back onto the cell of its second segment
C8_Witness ==
    pc = "final" /\ game_over /\ length = 3 /\ body[0] = body[2]

\* C9: once the snake exists, check_win is true iff length = max_length.
C9_WinIffFull ==
    GameStarted => (check_win(length, max_length) <=> length = max_length)

C9_Witness ==
    SnakeReady /\ check_win(length, max_length) /\ victory

\* C10: in an iteration of game_loop, an arrow key asking for the reverse of
\* the current direction leaves snake.dir as it is, any other arrow key sets
\* snake.dir to the direction asked for, and no key or any other key leaves
\* it as it is; the key read has no effect on body, length and food: without
\* a move they are unchanged, and a move shifts the cells the snake had.
Requested(key) ==
    CASE key = "KEY_UP"    -> "UP"
      [] key = "KEY_DOWN"  -> "DOWN"
      [] key = "KEY_LEFT"  -> "LEFT"
      [] key = "KEY_RIGHT" -> "RIGHT"
      [] OTHER             -> "NONE"

C10_InputSetsDirection ==
    [][pc = "game_loop" =>
         /\ (Requested(ch') = "NONE" => dir' = dir)
         /\ (Requested(ch') # "NONE" /\ Requested(ch') = Opposite(dir)
               => dir' = dir)
         /\ (Requested(ch') # "NONE" /\ Requested(ch') # Opposite(dir)
               => dir' = Requested(ch'))
         /\ (~MoveDue(frame_count + 1)
               => (body' = body /\ length' = length /\ food' = food))
         /\ (MoveDue(frame_count + 1)
               => \A i \in 1..(length - 1) : body'[i] = body[i - 1])]_vars

\* LEFT was the last key read and the snake still heads right
C10_Witness ==
    Running /\ ch = "KEY_LEFT" /\ dir = "RIGHT"

\* C11: game_over and victory are never both true; once either is set, the
\* body, length, direction and food of the snake and the two flags never
\* change again, and the only step that leaves the final screen is the one to
\* the exit on the key q or Q (the body is compared up to that step, which
\* frees it).
C11_TerminalAndExclusive ==
    [][/\ ~(game_over' /\ victory')
       /\ (game_over \/ victory)
            => /\ (pc' # "exit" => body' = body) /\ length' = length
               /\ dir' = dir /\ food' = food
               /\ game_over' = game_over /\ victory' = victory
               /\ pc \in {"final", "exit"}
               /\ (pc' # pc => (pc = "final" /\ pc' = "exit"
                                /\ ch' \in {"q", "Q"}))]_vars

\* a game that was won and then left on the key Q
C11_Witness ==
    pc = "exit" /\ exit_code = 0 /\ victory /\ ~game_over /\ ch = "Q"

\* C12: the program waits on the final screen only if the game ended in
\* GameOver or Victory; a quit key read while Running leads to the exit with
\* no further key.
C12_QuitNeedsNoSecondKey ==
    pc = "final" => (game_over \/ victory)

\* C13: when the start screen is left on q or Q, and never on SPACE, the
\* program does not enter Running: no food is placed and the snake is never
\* advanced.
C13_QuitOnStartScreenQuits ==
    pc # "game_loop" /\ food = NoPoint /\ last_dir = "NONE"

\* the step calls place_food: main after the start screen, or update_snake
\* when the snake grows
PlacesFood ==
    \/ (pc = "start_screen" /\ pc' = "game_loop")
    \/ (Advance /\ length' = length + 1)

\* C14: every call of place_food returns after 1 to max_attempts draws with
\* the food on the cell of the last draw, which is inside the pit; if fewer
\* than max_attempts draws were made, that cell is no cell of the snake.
C14_PlaceFoodBounded ==
    [][PlacesFood =>
         /\ 1 <= attempts' /\ attempts' <= max_attempts
         /\ food'.x = (drawn'.rx % pit_width) + 1
         /\ food'.y = (drawn'.ry % pit_height) + 1
         /\ 1 <= food'.x /\ food'.x <= pit_width
         /\ 1 <= food'.y /\ food'.y <= pit_height
         /\ (attempts' < max_attempts
               => \A i \in 0..(length' - 1) : body'[i] # food')]_vars

\* a call used all its draws and left the food on the snake
C14_Witness ==
    Running /\ attempts = max_attempts /\ OnSnake(food) /\ length > 3

\* C15: a terminal that is too small makes the program exit with code 1
\* before the snake is initialised or the game runs; any other terminal
\* starts the game and the program exits with code 0; and a terminal is
\* accepted from the size the message names, MsgRows by MsgCols.
C15_SizeCheckMatchesMessage ==
    pc # "main"
      => /\ exit_code = 1
              => (pc = "exit" /\ length = 0 /\ food = NoPoint
                  /\ last_dir = "NONE")
         /\ (pc = "exit" /\ exit_code # 1) => (exit_code = 0 /\ length >= 3)
         /\ (max_y >= MsgRows /\ max_x >= MsgCols)
              => (exit_code # 1 /\ GameStarted)

\* the snake is as init_snake left it: update_snake has not run yet
NotYetMoved == pc = "start_screen" \/ (pc = "game_loop" /\ last_dir = "NONE")

\* C16: init_snake leaves a snake of length 3 on the centre row of the pit,
\* horizontal, the head rightmost, with direction RIGHT and max_length =
\* pit_width + pit_height; the game starts Running with game_over and victory
\* both false.
C16_InitialSnake ==
    /\ NotYetMoved
         => /\ length = 3 /\ DOMAIN body = 0..2
            /\ body[0].y = (pit_height \div 2) + 1
            /\ body[0].x = (pit_width \div 2) + 1
            /\ body[1].y = body[0].y /\ body[1].x = body[0].x - 1
            /\ body[2].y = body[0].y /\ body[2].x = body[0].x - 2
            /\ max_length = pit_width + pit_height
            /\ ~game_over /\ ~victory
    /\ pc = "start_screen" => dir = "RIGHT"
    /\ (pc = "game_loop" /\ frame_count = 0 /\ last_dir = "NONE")
         => (dir = "RIGHT" /\ running)

\* the game has just started
C16_Witness ==
    /\ pc = "game_loop" /\ frame_count = 0 /\ last_dir = "NONE"
    /\ running /\ dir = "RIGHT" /\ food.x >= 1

\* C17: game_loop starts with frame_count = 0; an iteration that finds
\* frame_count = 0 (ticks 1, 3, 5, ...) counts the frame and neither moves
\* the snake nor touches game_over and victory; an iteration that finds
\* frame_count = 1 (ticks 2, 4, 6, ...) moves the snake once, resets the
\* counter and sets the flags from the collision and win checks on the snake
\* as moved.
C17_MoveEverySecondTick ==
    [][/\ (pc = "start_screen" /\ pc' = "game_loop") => frame_count' = 0
       /\ (pc = "game_loop" /\ frame_count = 0)
            => /\ frame_count' = 1
               /\ body' = body /\ length' = length /\ food' = food
               /\ last_dir' = last_dir
               /\ game_over' = game_over /\ victory' = victory
       /\ (pc = "game_loop" /\ frame_count = 1)
            => /\ frame_count' = 0
               /\ body'[0] # body[0] /\ last_dir' = dir'
               /\ \A i \in 1..(length - 1) : body'[i] = body[i - 1]
               /\ game_over' = check_collision(body', length')
               /\ victory' = (~game_over' /\ length' >= max_length)
       /\ (pc = "game_loop" => frame_count \in {0, 1})]_vars

\* the third tick of a game: one advance made, one frame counted since
C17_Witness ==
    Running /\ frame_count = 1 /\ last_dir # "NONE"

\* C18: an iteration of game_loop that reads q or Q does not advance the
\* snake, leaves length and food unchanged and sets neither game_over nor
\* victory.
C18_QuitTickChangesNothing ==
    [][(pc = "game_loop" /\ ch' \in {"q", "Q"})
         => /\ body' = body /\ length' = length /\ food' = food
            /\ game_over' = game_over /\ victory' = victory]_vars

Abs(n) == IF n < 0 THEN -n ELSE n

Manhattan(p, q) == Abs(p.x - q.x) + Abs(p.y - q.y)

\* C19: once the snake exists it is a connected path in every state, the
\* state in which a collision is detected included: body[i] and body[i-1]
\* are at Manhattan distance 1 for every i in 1..length-1.
C19_Connected ==
    SnakeReady
      => \A i \in 1..(length - 1) : Manhattan(body[i], body[i - 1]) = 1

\* a snake that has grown and then left the pit
C19_Witness ==
    pc = "final" /\ game_over /\ length >= 5 /\ ~InPit(body[0])

\* With no key pressed every advance goes one column to the right, so the
\* advances made are the columns between the head and its start column.
AdvancesMade == body[0].x - ((pit_width \div 2) + 1)

NoKeyRun ==
    SnakeReady
      => /\ ~victory
         /\ dir = "RIGHT" /\ body[0].y = (pit_height \div 2) + 1
         /\ game_over
              => /\ body[0].x = pit_width + 1
                 /\ AdvancesMade = pit_width - ((pit_width \div 2) + 1) + 1
         /\ (~game_over /\ pc # "start_screen")
              => AdvancesMade < pit_width - ((pit_width \div 2) + 1) + 1

\* C20: if no arrow key and no quit key is pressed after the game starts,
\* every advance moves the head one column to the right, the game reaches
\* GameOver with the head in the right wall after exactly
\* pit_width - (pit_width/2 + 1) + 1 advances, whatever food is placed, and
\* never reaches Victory.
C20_NoKeysHitRightWall ==
    /\ []NoKeyRun
    /\ [][Advance => (body'[0].x = body[0].x + 1 /\ body'[0].y = body[0].y
                      /\ AdvancesMade' = AdvancesMade + 1)]_vars
    /\ (pc = "game_loop") ~> (game_over /\ pc = "final")

\* the snake ate on its way and ran into the right wall
C20_Witness ==
    pc = "final" /\ game_over /\ body[0].x = pit_width + 1 /\ length = 4
    /\ ch = "ERR"

====
